---- MODULE Spec2Model ----
(***************************************************************************)
(* A model of app.py, the Streamlit patient dashboard.                     *)
(*                                                                         *)
(* The backing file final_data_utf8.csv is the only persistent state.  It  *)
(* is read by pd.read_csv (with dtype={'ID': str}) and rewritten whole by  *)
(* DataFrame.to_csv; both conversions are modelled by what pandas does:    *)
(* the default NA tokens, the per-column type inference and the number     *)
(* formatting.  A text on disk is a token [k, n]: the empty field, the     *)
(* text NA, an integer literal, a float literal, a patient identifier      *)
(* "P<n>" or another plain word.  A cell in memory is a value [t, k, n]:   *)
(* NaN, an int64, a float64 or a Python str holding a text.                *)
(*                                                                         *)
(* pandas is taken as the 1.x line the code is written for, where          *)
(* DataFrame.append exists.                                                *)
(***************************************************************************)
EXTENDS Integers, Sequences, FiniteSets, TLC

VARIABLES
    file,        \* the backing CSV file: [st, enc, cols, rows]
    pc,          \* per session: where it is inside save_nurse_inputs
    call,        \* per session: the arguments of the running call
    nurse_data,  \* per session: the DataFrame save_nurse_inputs holds
    msg,         \* per session: what st.success / st.error showed last
    notes,       \* per session: what load_nurse_inputs returned last
    missed,      \* per session: updates others wrote since its read
    clean,       \* per session: no write by anyone since its own write
    before,      \* per session: the file when the running call began
    ncalls,      \* number of save_nurse_inputs calls started
    cache,       \* st.cache_data's entry for load_data(csv_file)
    first,       \* the dataset the process's first load_data call produced
    loadFailed,  \* whether that call ended in an except clause
    seenFile,    \* the file as it was at the latest load_data call
    dpc,         \* where the dashboard's script run is
    final_data,  \* the script's final_data
    ui,          \* the notices the script run has shown
    selected,    \* selected_patient_id, a list of one or no identifier
    page,        \* the page the sidebar's radio names
    pid5,        \* what the PID-5 section or page came to
    phq9,        \* what the PHQ-9 section came to
    shown,       \* the notes the page shows
    arg,         \* the input of a function applied on its own
    ret,         \* what the function returned
    fpc          \* whether the function has been applied

sessVars == <<pc, call, nurse_data, msg, notes, missed, clean, before, ncalls>>

dashVars == <<cache, first, loadFailed, seenFile, dpc, final_data, ui, selected, page,
              pid5, phq9, shown>>

funVars == <<arg, ret, fpc>>

vars == <<file, sessVars, dashVars, funVars>>

----------------------------------------------------------------------------
(* Bounds of the model *)

MaxRows == 2
MaxCalls == 2
NumIds == 2

----------------------------------------------------------------------------
(* Texts on disk *)

Empty == [k |-> "empty", n |-> 0]
NAText == [k |-> "na", n |-> 0]
IntText(i) == [k |-> "int", n |-> i]
FloatText(i) == [k |-> "float", n |-> i]
Pid(i) == [k |-> "pid", n |-> i]
Word(i) == [k |-> "word", n |-> i]

(* Cells of a DataFrame *)

NaN == [t |-> "nan", k |-> "empty", n |-> 0]
IntV(i) == [t |-> "int", k |-> "int", n |-> i]
FloatV(i) == [t |-> "float", k |-> "float", n |-> i]
StrV(tok) == [t |-> "str", k |-> tok.k, n |-> tok.n]

(* Column names.  f is the name or its prefix, a, p and b the parts of a   *)
(* name built by an f-string: pid5_{a}_{p} and phq9_day{a}_item{b}.        *)

Col(name) == [f |-> name, a |-> 0, p |-> "", b |-> 0]
IDCol == Col("ID")
AgeCol == Col("age")
NoteCols == {Col("objectives"), Col("tasks"), Col("comments")}

(* Exceptions are values: exc names what was raised, val what was returned *)

Ok(v) == [exc |-> "none", val |-> v]
Raise(e, v) == [exc |-> e, val |-> v]

EmptyDF == [cols |-> {}, rows |-> <<>>]

\* A file that cannot be opened
Unreadable == [st |-> "unreadable", enc |-> "utf8", cols |-> {}, rows |-> <<>>]

----------------------------------------------------------------------------
(* pd.read_csv and DataFrame.to_csv *)

Range(s) == {s[i] : i \in DOMAIN s}

\* The default na_values of read_csv: the empty field and NA (with N/A,
\* null, NaN, ... which the token NA stands for).
IsNA(tok) == tok.k \in {"empty", "na"}

\* The dtype read_csv infers for a column from its texts.
ColKind(toks) ==
    LET vals == {x \in toks : ~IsNA(x)} IN
    IF toks # {} /\ vals = toks /\ \A x \in vals : x.k = "int" THEN "int"
    ELSE IF toks # {} /\ \A x \in vals : x.k \in {"int", "float"} THEN "float"
    ELSE "object"

ParseCell(c, kind, tok) ==
    IF IsNA(tok) THEN NaN
    ELSE IF c = IDCol THEN StrV(tok)
    ELSE IF kind = "int" THEN IntV(tok.n)
    ELSE IF kind = "float" THEN FloatV(tok.n)
    ELSE StrV(tok)

ParseTable(cols, rows) ==
    LET kind == [c \in cols |-> ColKind({rows[i][c] : i \in DOMAIN rows})] IN
    [cols |-> cols,
     rows |-> [i \in DOMAIN rows |->
                 [c \in cols |-> ParseCell(c, kind[c], rows[i][c])]]]

\* pd.read_csv(csv_file, dtype={'ID': str}, encoding=encoding)
ReadCsv(f, encoding) ==
    IF f.st = "unreadable" THEN Raise("Exception", EmptyDF)
    ELSE IF f.enc = "latin1" /\ encoding = "utf-8"
        THEN Raise("UnicodeDecodeError", EmptyDF)
    ELSE IF f.st = "unparsable" THEN Raise("Exception", EmptyDF)
    ELSE Ok(ParseTable(f.cols, f.rows))

FormatCell(v) ==
    IF v.t = "nan" THEN Empty
    ELSE IF v.t = "int" THEN IntText(v.n)
    ELSE IF v.t = "float" THEN FloatText(v.n)
    ELSE [k |-> v.k, n |-> v.n]

\* df.to_csv(csv_file, index=False, encoding='utf-8')
ToCsv(df) ==
    [st |-> "ok", enc |-> "utf8", cols |-> df.cols,
     rows |-> [i \in DOMAIN df.rows |->
                 [c \in df.cols |-> FormatCell(df.rows[i][c])]]]

----------------------------------------------------------------------------
(* The note store: load_nurse_inputs and save_nurse_inputs *)

EmptyStr == StrV(Empty)

\* try utf-8; except UnicodeDecodeError: latin1 (lines 147-151, 166-170)
ReadFallback(f) ==
    LET r1 == ReadCsv(f, "utf-8") IN
    IF r1.exc = "UnicodeDecodeError" THEN ReadCsv(f, "latin1") ELSE r1

\* nurse_data["ID"] == patient_id, as the set of matching row numbers
Matching(df, id) == {i \in DOMAIN df.rows : df.rows[i][IDCol] = StrV(id)}

Min(S) == CHOOSE x \in S : \A y \in S : x <= y

\* Series.fillna("")
FillNa(v) == IF v.t = "nan" THEN EmptyStr ELSE v

EmptyNotes == [c \in NoteCols |-> EmptyStr]

\* An except clause that returns a default value
CatchNoHandler(r, default) == r

Catch(r, default) == IF r.exc = "none" THEN r ELSE Ok(default)

\* The body of load_nurse_inputs's try block
LoadNotesBody(f, id) ==
    LET r == ReadFallback(f) IN
    IF r.exc # "none" THEN r
    ELSE IF IDCol \notin r.val.cols THEN Raise("KeyError", r.val)
    ELSE IF Matching(r.val, id) = {} THEN Ok(EmptyNotes)
    ELSE IF ~(NoteCols \subseteq r.val.cols) THEN Raise("KeyError", r.val)
    ELSE Ok([c \in NoteCols |-> FillNa(r.val.rows[Min(Matching(r.val, id))][c])])

load_nurse_inputs(f, id) == Catch(LoadNotesBody(f, id), EmptyNotes)

\* The three values of a call, as the list [objectives, tasks, comments]
ArgOf(a, c) ==
    IF c = Col("objectives") THEN StrV(a.o)
    ELSE IF c = Col("tasks") THEN StrV(a.t)
    ELSE StrV(a.c)

\* The assignment of line 173 without its row mask
UpdateAllRows(df, a) ==
    [cols |-> df.cols \cup NoteCols,
     rows |-> [i \in DOMAIN df.rows |->
                 [c \in df.cols \cup NoteCols |-> IF c \in NoteCols THEN ArgOf(a, c)
                                                   ELSE df.rows[i][c]]]]

\* nurse_data.loc[nurse_data["ID"] == patient_id, [...]] = [...]
\* (a note column the frame lacks is added, NaN in the other rows)
Update(df, a) ==
    [cols |-> df.cols \cup NoteCols,
     rows |-> [i \in DOMAIN df.rows |->
                 [c \in df.cols \cup NoteCols |->
                    IF c \in NoteCols /\ i \in Matching(df, a.id) THEN ArgOf(a, c)
                    ELSE IF c \in df.cols THEN df.rows[i][c]
                    ELSE NaN]]]

\* The dtype of a column of a frame as read
IsIntCol(df, c) ==
    /\ df.rows # <<>>
    /\ \A i \in DOMAIN df.rows : df.rows[i][c].t = "int"

\* nurse_data.append(new_entry, ignore_index=True): the frames are
\* concatenated over the union of their columns; a column the new entry
\* lacks gets NaN in the new row, which turns an int64 column into float64.
AppendRow(df, a) ==
    LET newCols == df.cols \cup {IDCol} \cup NoteCols
        given == {IDCol} \cup NoteCols
        old(i, c) == IF c \notin df.cols THEN NaN
                     ELSE IF c \notin given /\ IsIntCol(df, c)
                         THEN FloatV(df.rows[i][c].n)
                     ELSE df.rows[i][c]
        new(c) == IF c = IDCol THEN StrV(a.id)
                  ELSE IF c \in NoteCols THEN ArgOf(a, c)
                  ELSE NaN
    IN [cols |-> newCols,
        rows |-> [i \in 1..(Len(df.rows) + 1) |->
                    [c \in newCols |-> IF i <= Len(df.rows) THEN old(i, c)
                                       ELSE new(c)]]]

\* Lines 172-176.  enlarges: whether .loc adds the note columns a frame
\* lacks (pandas from 1.1 on) or raises KeyError (before).
Mutate(df, a, enlarges) ==
    IF IDCol \notin df.cols THEN Raise("KeyError", df)
    ELSE IF Matching(df, a.id) # {} THEN
        IF NoteCols \subseteq df.cols \/ enlarges THEN Ok(Update(df, a))
        ELSE Raise("KeyError", df)
    ELSE Ok(AppendRow(df, a))

----------------------------------------------------------------------------
(* The dataset loader and the validation at the script's entry *)

\* The body of load_data, lines 61-76: the frame it returns and whether it
\* came from an except clause
LoadDataBody(f) ==
    LET r1 == ReadCsv(f, "utf-8") IN
    IF r1.exc = "none" THEN [df |-> r1.val, failed |-> FALSE]
    ELSE IF r1.exc = "UnicodeDecodeError" THEN
        LET r2 == ReadCsv(f, "latin1") IN
        IF r2.exc = "none" THEN [df |-> r2.val, failed |-> FALSE]
        ELSE [df |-> EmptyDF, failed |-> TRUE]
    ELSE [df |-> EmptyDF, failed |-> TRUE]

NoCache == [has |-> FALSE, df |-> EmptyDF]

\* load_data without its decorator
load_data_uncached(c, f) == LoadDataBody(f).df

\* @st.cache_data, line 59: the entry for the one path the script passes
load_data(c, f) == IF c.has THEN c.df ELSE LoadDataBody(f).df

\* final_data['ID'].isnull().any()
IsNullAny(df) == \E i \in DOMAIN df.rows : df.rows[i][IDCol].t = "nan"

\* final_data['ID'].duplicated().any(): a row repeats an earlier one
DuplicatedAny(df) ==
    \E i, j \in DOMAIN df.rows : j < i /\ df.rows[i][IDCol] = df.rows[j][IDCol]

\* The checks of lines 84-94 without the third
IdCheckNoDuplicates(df) ==
    IF IDCol \notin df.cols THEN "missing"
    ELSE IF IsNullAny(df) THEN "null"
    ELSE "ok"

\* Lines 84-94: which check stops the script, or "ok"
IdCheck(df) ==
    IF IDCol \notin df.cols THEN "missing"
    ELSE IF IsNullAny(df) THEN "null"
    ELSE IF DuplicatedAny(df) THEN "duplicate"
    ELSE "ok"

----------------------------------------------------------------------------
(* The sidebar's patient list, lines 124-138 *)

\* extract_number on a text: P<n> and the number n have the digit run n,
\* other texts have none (float('inf'))
extract_number(v) ==
    IF v.k \in {"pid", "int", "float"} THEN [inf |-> FALSE, n |-> v.n]
    ELSE [inf |-> TRUE, n |-> 0]

KeyLess(x, y) == ~x.inf /\ (y.inf \/ x.n < y.n)

\* final_data["ID"].unique(): first occurrences, in order
RECURSIVE Unique(_)
Unique(ids) ==
    IF ids = <<>> THEN <<>>
    ELSE LET front == Unique(SubSeq(ids, 1, Len(ids) - 1))
             last == ids[Len(ids)]
         IN IF last \in Range(front) THEN front ELSE Append(front, last)

\* x put into a sorted list after the elements whose key is not greater
Insert(sorted, x) ==
    LET n == Cardinality({i \in DOMAIN sorted :
                 ~KeyLess(extract_number(x), extract_number(sorted[i]))})
    IN SubSeq(sorted, 1, n) \o <<x>> \o SubSeq(sorted, n + 1, Len(sorted))

\* sorted(ids, key=extract_number)
RECURSIVE Sorted(_)
Sorted(ids) ==
    IF ids = <<>> THEN <<>>
    ELSE Insert(Sorted(SubSeq(ids, 1, Len(ids) - 1)), ids[Len(ids)])

\* DataFrame.empty: no rows or no columns
IsEmptyDF(df) == df.rows = <<>> \/ df.cols = {}

\* The text a Python str holds
TextOf(v) == [k |-> v.k, n |-> v.n]

\* Line 137
patient_ids(df) ==
    IF IsEmptyDF(df) THEN <<>>
    ELSE Sorted(Unique([i \in DOMAIN df.rows |-> TextOf(df.rows[i][IDCol])]))

----------------------------------------------------------------------------
(* The score aggregators of patient_dashboard and details_pid5_page.  The  *)
(* item cells of the files of this model are numbers or empty.             *)

SexeCol == Col("sexe")
PID5Col(item, phase) == [f |-> "pid5", a |-> item, p |-> phase, b |-> 0]
PHQ9Col(day, item) == [f |-> "phq9", a |-> day, p |-> "", b |-> item]

\* Lines 111-117, a dimension's misplaced item
pid5_dimensions_mapping_slip ==
    << [dim |-> "Affect Negatif", items |-> <<8, 9, 10, 11, 14>>],
       [dim |-> "Detachement", items |-> <<4, 13, 14, 16, 18>>],
       [dim |-> "Antagonisme", items |-> <<17, 19, 20, 22, 25>>],
       [dim |-> "Desinhibition", items |-> <<1, 2, 3, 5, 6>>],
       [dim |-> "Psychoticisme", items |-> <<7, 12, 21, 23, 24>>] >>

\* Lines 111-117
pid5_dimensions_mapping ==
    << [dim |-> "Affect Negatif", items |-> <<8, 9, 10, 11, 15>>],
       [dim |-> "Detachement", items |-> <<4, 13, 14, 16, 18>>],
       [dim |-> "Antagonisme", items |-> <<17, 19, 20, 22, 25>>],
       [dim |-> "Desinhibition", items |-> <<1, 2, 3, 5, 6>>],
       [dim |-> "Psychoticisme", items |-> <<7, 12, 21, 23, 24>>] >>

Dims == DOMAIN pid5_dimensions_mapping

\* Lines 120-121
has_pid5(df) == \E c \in df.cols : c.f = "pid5"
has_phq9(df) == \E c \in df.cols : c.f = "phq9"

\* Series.sum() over the named cells of a row: NaN is skipped
RECURSIVE SumCells(_, _)
SumCells(row, cols) ==
    IF cols = <<>> THEN 0
    ELSE (IF row[Head(cols)].t = "nan" THEN 0 ELSE row[Head(cols)].n)
         + SumCells(row, Tail(cols))

\* [f'pid5_{item}_{phase}' for item in items]
Pid5Items(d, phase) ==
    [i \in DOMAIN pid5_dimensions_mapping[d].items |->
        PID5Col(pid5_dimensions_mapping[d].items[i], phase)]

\* set(pid5_columns_bl + pid5_columns_fu), lines 334-340 and 484-488
pid5_columns ==
    UNION {Range(Pid5Items(d, "bl")) \cup Range(Pid5Items(d, "fu")) : d \in Dims}

NoScores == [d \in {} |-> 0]

NoPid5 == [status |-> "none", bl |-> NoScores, fu |-> NoScores]

\* Lines 332-349 and 387, and lines 478-498
Pid5Scores(df, row) ==
    IF ~has_pid5(df) THEN [NoPid5 EXCEPT !.status = "unavailable"]
    ELSE IF ~(pid5_columns \subseteq df.cols)
        THEN [NoPid5 EXCEPT !.status = "incomplete"]
    ELSE [status |-> "scores",
          bl |-> [d \in Dims |-> SumCells(row, Pid5Items(d, "bl"))],
          fu |-> [d \in Dims |-> SumCells(row, Pid5Items(d, "fu"))]]

phq9_days == <<5, 10, 15, 20, 25, 30>>

\* [f'phq9_day{day}_item{item}' for item in range(1, 10)]
item_columns(day) == [item \in 1..9 |-> PHQ9Col(day, item)]

\* The loop of lines 394-400: the scores summed and whether it broke off
RECURSIVE Phq9Loop(_, _, _, _)
Phq9Loop(df, row, days, scores) ==
    IF days = <<>> THEN [missing |-> FALSE, scores |-> scores]
    ELSE IF ~(Range(item_columns(Head(days))) \subseteq df.cols)
        THEN [missing |-> TRUE, scores |-> scores]
    ELSE Phq9Loop(df, row, Tail(days),
                  scores @@ (Head(days) :> SumCells(row, item_columns(Head(days)))))

NoPhq9 == [status |-> "none", summed |-> NoScores, chart |-> NoScores]

\* Lines 402-416 drawing what the loop summed, broken off or not
Phq9ShowsPartial(df, row) ==
    IF ~has_phq9(df) THEN [NoPhq9 EXCEPT !.status = "unavailable"]
    ELSE LET r == Phq9Loop(df, row, phq9_days, NoScores) IN
         [status |-> IF r.missing THEN "incomplete" ELSE "scores",
          summed |-> r.scores, chart |-> r.scores]

\* Lines 389-418: summed is phq9_scores, chart what the line chart draws
Phq9Progression(df, row) ==
    IF ~has_phq9(df) THEN [NoPhq9 EXCEPT !.status = "unavailable"]
    ELSE LET r == Phq9Loop(df, row, phq9_days, NoScores) IN
         IF r.missing
         THEN [status |-> "incomplete", summed |-> r.scores, chart |-> NoScores]
         ELSE [status |-> "scores", summed |-> r.scores, chart |-> r.scores]

\* No function has been applied on its own
FunIdle ==
    /\ arg = <<>>
    /\ ret = <<>>
    /\ fpc = "idle"

\* The dashboard before its first script run
DashIdle ==
    /\ cache = NoCache
    /\ first = NoCache
    /\ loadFailed = FALSE
    /\ seenFile = Unreadable
    /\ dpc = "idle"
    /\ final_data = EmptyDF
    /\ ui = {}
    /\ selected = <<>>
    /\ page = "none"
    /\ pid5 = NoPid5
    /\ phq9 = NoPhq9
    /\ shown = EmptyNotes

----------------------------------------------------------------------------
(* Sessions of the note store.  Streamlit runs each browser session's     *)
(* script in a thread of its own, so calls of save_nurse_inputs overlap;   *)
(* a call is split where it touches the file: the read (lines 166-170)     *)
(* and the write (line 177).                                               *)

Sessions == {"s1", "s2"}

PatientIds == {Pid(i) : i \in 1..NumIds}

NoteTexts == {Empty, NAText, IntText(5), Word(1)}

\* The calls of the one-session specification, and the fewer calls of the
\* two-session one
Calls == [id : PatientIds, o : NoteTexts, t : {Empty, Word(2)}, c : {Empty}]

RaceCalls == [id : PatientIds, o : {NAText, Word(3)}, t : {Word(2)}, c : {Empty}]

NoCall == [id |-> Empty, o |-> Empty, t |-> Empty, c |-> Empty]

\* A file cut short by a write that failed
Truncated == [st |-> "unparsable", enc |-> "utf8", cols |-> {}, rows |-> <<>>]

AllCols == {IDCol, AgeCol} \cup NoteCols

StoreRow(id, age, obj) ==
    [c \in AllCols |-> IF c = IDCol THEN id
                       ELSE IF c = AgeCol THEN age
                       ELSE IF c = Col("objectives") THEN obj
                       ELSE Empty]

WithIds(rows) == [i \in DOMAIN rows |-> [rows[i] EXCEPT ![IDCol] = Pid(i)]]

Project(rows, cols) == [i \in DOMAIN rows |-> [c \in cols |-> rows[i][c]]]

CsvFile(enc, cols, rows) ==
    [st |-> "ok", enc |-> enc, cols |-> cols, rows |-> Project(rows, cols)]

\* Tables whose identifiers are unique: row i is patient P<i>
StoreTables ==
    UNION {{WithIds(r) : r \in [1..n -> {StoreRow(Empty, IntText(34), Empty),
                                         StoreRow(Empty, Empty, Word(1)),
                                         StoreRow(Empty, FloatText(34), NAText)}]}
           : n \in 0..MaxRows}

TheTable(n) == WithIds([i \in 1..n |-> StoreRow(Empty, IntText(34), Word(1))])

BadFiles == {Unreadable, Truncated, [Truncated EXCEPT !.enc = "latin1"]}

StoreFiles ==
    {CsvFile("utf8", AllCols, r) : r \in StoreTables}
    \cup {CsvFile(e, cs, TheTable(MaxRows))
            : e \in {"utf8", "latin1"},
              cs \in {AllCols, AllCols \ NoteCols, AllCols \ {IDCol}}}
    \cup BadFiles

RaceFiles ==
    {CsvFile("utf8", AllCols, TheTable(n)) : n \in 0..MaxRows}
    \cup {CsvFile("latin1", AllCols \ NoteCols, TheTable(MaxRows)), Truncated}

StoreInit(files) ==
    /\ file \in files
    /\ pc = [s \in Sessions |-> "idle"]
    /\ call = [s \in Sessions |-> NoCall]
    /\ nurse_data = [s \in Sessions |-> EmptyDF]
    /\ msg = [s \in Sessions |-> "none"]
    /\ notes = [s \in Sessions |-> EmptyNotes]
    /\ missed = [s \in Sessions |-> {}]
    /\ clean = [s \in Sessions |-> FALSE]
    /\ before = [s \in Sessions |-> Unreadable]
    /\ ncalls = 0
    /\ DashIdle
    /\ FunIdle

\* save_nurse_inputs is called and reads the file (lines 163-170); a
\* failed read goes to the except clause of lines 180-182
SaveRead(s, a) ==
    /\ pc[s] = "idle"
    /\ ncalls < MaxCalls
    /\ ncalls' = ncalls + 1
    /\ call' = [call EXCEPT ![s] = a]
    /\ before' = [before EXCEPT ![s] = file]
    /\ missed' = [missed EXCEPT ![s] = {}]
    /\ clean' = [clean EXCEPT ![s] = FALSE]
    /\ LET r == ReadFallback(file) IN
        IF r.exc = "none"
        THEN /\ nurse_data' = [nurse_data EXCEPT ![s] = r.val]
             /\ pc' = [pc EXCEPT ![s] = "read"]
             /\ msg' = [msg EXCEPT ![s] = "none"]
        ELSE /\ nurse_data' = [nurse_data EXCEPT ![s] = EmptyDF]
             /\ pc' = [pc EXCEPT ![s] = "failed_read"]
             /\ msg' = [msg EXCEPT ![s] = "error"]
    /\ UNCHANGED <<file, notes>>
    /\ UNCHANGED <<dashVars, funVars>>

\* Lines 172-179: the row is located and changed, the file rewritten.
\* missed and clean record the write for the other sessions.
SaveWrite(s, enlarges) ==
    /\ pc[s] = "read"
    /\ Mutate(nurse_data[s], call[s], enlarges).exc = "none"
    /\ file' = ToCsv(Mutate(nurse_data[s], call[s], enlarges).val)
    /\ msg' = [msg EXCEPT ![s] = "success"]
    /\ pc' = [pc EXCEPT ![s] = "done"]
    /\ missed' = [x \in Sessions |->
                    IF x # s /\ pc[x] = "read" THEN missed[x] \cup {call[s]}
                    ELSE missed[x]]
    /\ clean' = [x \in Sessions |-> x = s]
    /\ UNCHANGED <<call, nurse_data, notes, before, ncalls>>
    /\ UNCHANGED <<dashVars, funVars>>

\* A failure before the write that leaves the file cut short
SaveMutateFailClobbers(s, enlarges) ==
    /\ pc[s] = "read"
    /\ Mutate(nurse_data[s], call[s], enlarges).exc # "none"
    /\ file' = Truncated
    /\ msg' = [msg EXCEPT ![s] = "error"]
    /\ pc' = [pc EXCEPT ![s] = "failed_mutate"]
    /\ UNCHANGED <<call, nurse_data, notes, missed, clean, before, ncalls>>
    /\ UNCHANGED <<dashVars, funVars>>

\* Lines 172-176 raise: the except clause of lines 180-182
SaveMutateFail(s, enlarges) ==
    /\ pc[s] = "read"
    /\ Mutate(nurse_data[s], call[s], enlarges).exc # "none"
    /\ msg' = [msg EXCEPT ![s] = "error"]
    /\ pc' = [pc EXCEPT ![s] = "failed_mutate"]
    /\ UNCHANGED <<file, call, nurse_data, notes, missed, clean, before, ncalls>>
    /\ UNCHANGED <<dashVars, funVars>>

\* Line 177 raises (an OSError of to_csv): the file is as it was, or cut
\* short; the except clause of lines 180-182
SaveWriteFail(s, enlarges, cut) ==
    /\ pc[s] = "read"
    /\ Mutate(nurse_data[s], call[s], enlarges).exc = "none"
    /\ file' = IF cut THEN Truncated ELSE file
    /\ msg' = [msg EXCEPT ![s] = "error"]
    /\ pc' = [pc EXCEPT ![s] = "failed_write"]
    /\ clean' = [x \in Sessions |-> IF cut THEN FALSE ELSE clean[x]]
    /\ UNCHANGED <<call, nurse_data, notes, missed, before, ncalls>>
    /\ UNCHANGED <<dashVars, funVars>>

\* get_nurse_inputs(patient_id), lines 185-187, with the file as it is now
Show(s, id) ==
    /\ notes' = [notes EXCEPT ![s] = load_nurse_inputs(file, id).val]
    /\ pc' = [pc EXCEPT ![s] = IF load_nurse_inputs(file, id).exc = "none"
                                THEN "shown" ELSE "crashed"]
    /\ before' = [before EXCEPT ![s] = file]

\* A page is drawn for the selected patient (lines 222 and 451)
View(s, id) ==
    /\ pc[s] = "idle"
    /\ Show(s, id)
    /\ call' = [call EXCEPT ![s] = [NoCall EXCEPT !.id = id]]
    /\ UNCHANGED <<file, nurse_data, msg, missed, clean, ncalls>>
    /\ UNCHANGED <<dashVars, funVars>>

\* The script run that follows a form submission draws the page again
Reload(s) ==
    /\ pc[s] \in {"done", "failed_read", "failed_mutate", "failed_write"}
    /\ Show(s, call[s].id)
    /\ UNCHANGED <<file, call, nurse_data, msg, missed, clean, ncalls>>
    /\ UNCHANGED <<dashVars, funVars>>

\* The session waits for its next interaction
Return(s) ==
    /\ pc[s] = "shown"
    /\ pc' = [pc EXCEPT ![s] = "idle"]
    /\ call' = [call EXCEPT ![s] = NoCall]
    /\ nurse_data' = [nurse_data EXCEPT ![s] = EmptyDF]
    /\ msg' = [msg EXCEPT ![s] = "none"]
    /\ notes' = [notes EXCEPT ![s] = EmptyNotes]
    /\ missed' = [missed EXCEPT ![s] = {}]
    /\ clean' = [clean EXCEPT ![s] = FALSE]
    /\ before' = [before EXCEPT ![s] = Unreadable]
    /\ UNCHANGED <<file, ncalls>>
    /\ UNCHANGED <<dashVars, funVars>>

StoreNext(S, C) ==
    \/ \E s \in S, a \in C : SaveRead(s, a)
    \/ \E s \in S, e \in BOOLEAN : SaveWrite(s, e)
    \/ \E s \in S, e \in BOOLEAN : SaveMutateFail(s, e)
    \/ \E s \in S, e \in BOOLEAN, cut \in BOOLEAN : SaveWriteFail(s, e, cut)
    \/ \E s \in S : Reload(s)
    \/ \E s \in S : Return(s)

\* Two sessions whose calls overlap
Next == StoreNext(Sessions, RaceCalls)

Spec == StoreInit(RaceFiles) /\ [][Next]_vars

\* One session, more files and more texts
SeqNext ==
    \/ StoreNext({"s1"}, Calls)
    \/ \E id \in PatientIds : View("s1", id)

SpecSeq == StoreInit(StoreFiles) /\ [][SeqNext]_vars

----------------------------------------------------------------------------
(* The dashboard: one browser session of one server process.  Every        *)
(* interaction runs the script from its first line: load_data, the checks  *)
(* of the identifier column, the sidebar, then the page.                   *)

Pages == {"dashboard", "nurse", "details"}

\* The frame's first row for the selected identifier (lines 195 and 482)
patient_row(df, id) == df.rows[Min(Matching(df, id))]

\* Line 79, at the start of a script run
RunLoad ==
    /\ dpc = "idle"
    /\ final_data' = load_data(cache, file)
    /\ cache' = [has |-> TRUE, df |-> load_data(cache, file)]
    /\ first' = IF first.has THEN first
                ELSE [has |-> TRUE, df |-> LoadDataBody(file).df]
    /\ loadFailed' = IF first.has THEN loadFailed ELSE LoadDataBody(file).failed
    /\ seenFile' = file
    /\ dpc' = "loaded"
    /\ ui' = {}
    /\ selected' = <<>>
    /\ page' = "none"
    /\ pid5' = NoPid5
    /\ phq9' = NoPhq9
    /\ shown' = EmptyNotes
    /\ UNCHANGED <<file, sessVars, funVars>>

\* Lines 84-94: st.error and st.stop, or on to the sidebar
Validate ==
    /\ dpc = "loaded"
    /\ IF IdCheck(final_data) = "ok"
       THEN dpc' = "validated" /\ ui' = ui
       ELSE dpc' = "stopped" /\ ui' = ui \cup {<<"error", IdCheck(final_data)>>}
    /\ UNCHANGED <<file, sessVars, funVars, cache, first, loadFailed, seenFile,
                   final_data,
                   selected, page, pid5, phq9, shown>>

\* Lines 129-141: the radio's page and the selectbox's patient
Sidebar(p, sel) ==
    /\ dpc = "validated"
    /\ sel \in IF patient_ids(final_data) = <<>> THEN {<<>>}
               ELSE {<<x>> : x \in Range(patient_ids(final_data))}
    /\ page' = p
    /\ selected' = sel
    /\ dpc' = "selected"
    /\ UNCHANGED <<file, sessVars, funVars, cache, first, loadFailed, seenFile,
                   final_data, ui,
                   pid5, phq9, shown>>

\* patient_dashboard, lines 190-428, up to the form
PatientDashboard ==
    /\ dpc = "selected"
    /\ page = "dashboard"
    /\ IF selected = <<>>
       THEN /\ ui' = ui \cup {<<"warning", "no patient">>}
            /\ dpc' = "done"
            /\ UNCHANGED <<pid5, phq9, shown>>
       ELSE IF ~({AgeCol, SexeCol} \subseteq final_data.cols)
       THEN \* patient_data['age'] or ['sexe'] raises KeyError, lines 204-205
            /\ dpc' = "crashed"
            /\ UNCHANGED <<ui, pid5, phq9, shown>>
       ELSE /\ shown' = load_nurse_inputs(file, selected[1]).val
            /\ pid5' = Pid5Scores(final_data, patient_row(final_data, selected[1]))
            /\ phq9' = Phq9Progression(final_data,
                                       patient_row(final_data, selected[1]))
            /\ dpc' = "form"
            /\ ui' = ui
    /\ UNCHANGED <<file, sessVars, funVars, cache, first, loadFailed, seenFile,
                   final_data,
                   selected, page>>

\* nurse_inputs_page, lines 445-456, up to the form
NurseInputsPage ==
    /\ dpc = "selected"
    /\ page = "nurse"
    /\ IF selected = <<>>
       THEN /\ ui' = ui \cup {<<"warning", "no patient">>}
            /\ dpc' = "done"
            /\ shown' = shown
       ELSE /\ shown' = load_nurse_inputs(file, selected[1]).val
            /\ dpc' = "form"
            /\ ui' = ui
    /\ UNCHANGED <<file, sessVars, funVars, cache, first, loadFailed, seenFile,
                   final_data,
                   selected, page, pid5, phq9>>

\* details_pid5_page, lines 473-549
DetailsPid5Page ==
    /\ dpc = "selected"
    /\ page = "details"
    /\ IF selected = <<>>
       THEN /\ ui' = ui \cup {<<"warning", "no patient">>}
            /\ pid5' = pid5
       ELSE /\ pid5' = Pid5Scores(final_data, patient_row(final_data, selected[1]))
            /\ ui' = ui
    /\ dpc' = "done"
    /\ UNCHANGED <<file, sessVars, funVars, cache, first, loadFailed, seenFile,
                   final_data,
                   selected, page, phq9, shown>>

\* A whole call of save_nurse_inputs, lines 163-182: the file it leaves
\* and the notice it shows.  wr: whether to_csv succeeds, fails or fails
\* with the file cut short.
save_nurse_inputs(f, a, enlarges, wr) ==
    LET r == ReadFallback(f)
        m == Mutate(r.val, a, enlarges)
    IN IF r.exc # "none" \/ m.exc # "none" THEN [file |-> f, msg |-> "error"]
       ELSE IF wr = "ok" THEN [file |-> ToCsv(m.val), msg |-> "success"]
       ELSE [file |-> IF wr = "cut" THEN Truncated ELSE f, msg |-> "error"]

\* The form is submitted: lines 430-431 and 458-459
Submit(a, enlarges, wr) ==
    /\ dpc = "form"
    /\ a.id = selected[1]
    /\ file' = save_nurse_inputs(file, a, enlarges, wr).file
    /\ ui' = ui \cup {<<"save", save_nurse_inputs(file, a, enlarges, wr).msg>>}
    /\ dpc' = "done"
    /\ UNCHANGED <<sessVars, funVars, cache, first, loadFailed, seenFile,
                   final_data, selected,
                   page, pid5, phq9, shown>>

\* The script run is over; the next interaction starts another
EndRun ==
    /\ dpc \in {"form", "done", "stopped", "crashed"}
    /\ dpc' = "idle"
    /\ UNCHANGED <<file, sessVars, funVars, cache, first, loadFailed, seenFile,
                   final_data, ui,
                   selected, page, pid5, phq9, shown>>

\* The file is replaced from outside the process
ExternalChange(f) ==
    /\ file # f
    /\ file' = f
    /\ UNCHANGED <<sessVars, funVars, dashVars>>

\* The server process is started again: the cache is empty
Restart ==
    /\ cache.has
    /\ cache' = NoCache
    /\ first' = NoCache
    /\ loadFailed' = FALSE
    /\ seenFile' = Unreadable
    /\ dpc' = "idle"
    /\ final_data' = EmptyDF
    /\ ui' = {}
    /\ selected' = <<>>
    /\ page' = "none"
    /\ pid5' = NoPid5
    /\ phq9' = NoPhq9
    /\ shown' = EmptyNotes
    /\ UNCHANGED <<file, sessVars, funVars>>

\* The files of the dashboard specification.  Identifier columns with
\* nulls and duplicates:
IdTables ==
    UNION {{[i \in 1..n |-> [StoreRow(ids[i], IntText(34), Word(1))
                              EXCEPT ![Col("tasks")] = NAText]]
              : ids \in [1..n -> {Pid(1), Pid(2), Empty}]}
           : n \in 0..MaxRows}

ScoreBase == AllCols \cup {SexeCol}

phq9_columns == UNION {Range(item_columns(phq9_days[i])) : i \in DOMAIN phq9_days}

\* A column named pid5_... that no dimension uses
ExtraPid5 == PID5Col(26, "bl")

\* The schemas: every required column but one, none of them, all of them
ScoreSchemas ==
    {ScoreBase \cup (pid5_columns \ {c}) \cup phq9_columns : c \in pid5_columns}
    \cup {ScoreBase \cup pid5_columns \cup (phq9_columns \ {c}) : c \in phq9_columns}
    \cup {ScoreBase \cup pid5_columns \cup phq9_columns,
          ScoreBase \cup pid5_columns \cup phq9_columns \cup {ExtraPid5},
          ScoreBase \cup {ExtraPid5} \cup phq9_columns,
          ScoreBase \cup pid5_columns,
          ScoreBase}

\* Two patients: the first with every item answered, the second with gaps
ScoreCell(c, i) ==
    IF c = IDCol THEN Pid(i)
    ELSE IF c.f \in {"pid5", "phq9"} THEN
        IF i = 1 THEN IntText((c.a + c.b + (IF c.p = "fu" THEN 1 ELSE 0)) % 4)
        ELSE IF (c.a + c.b) % 3 = 0 THEN Empty
        ELSE IntText((c.a * c.a + c.b) % 4)
    ELSE IF c = AgeCol THEN IntText(34)
    ELSE IF c = SexeCol THEN IntText(i)
    ELSE Empty

ScoreFiles ==
    {[st |-> "ok", enc |-> "utf8", cols |-> cs,
      rows |-> [i \in 1..2 |-> [c \in cs |-> ScoreCell(c, i)]]] : cs \in ScoreSchemas}

DashFiles ==
    {CsvFile("utf8", AllCols, r) : r \in IdTables}
    \cup {CsvFile("latin1", AllCols, TheTable(MaxRows)),
          CsvFile("utf8", AllCols \ {IDCol}, TheTable(MaxRows))}
    \cup BadFiles
    \cup {f \in ScoreFiles : f.cols = ScoreBase \cup pid5_columns}

\* What the file is replaced by
Replacements ==
    {CsvFile("utf8", AllCols, TheTable(MaxRows + 1)), Unreadable}

DashCalls == [id : PatientIds, o : {Word(3)}, t : {Empty}, c : {NAText}]

DashInit ==
    /\ file \in DashFiles
    /\ pc = [s \in Sessions |-> "idle"]
    /\ call = [s \in Sessions |-> NoCall]
    /\ nurse_data = [s \in Sessions |-> EmptyDF]
    /\ msg = [s \in Sessions |-> "none"]
    /\ notes = [s \in Sessions |-> EmptyNotes]
    /\ missed = [s \in Sessions |-> {}]
    /\ clean = [s \in Sessions |-> FALSE]
    /\ before = [s \in Sessions |-> Unreadable]
    /\ ncalls = 0
    /\ DashIdle
    /\ FunIdle

DashNext ==
    \/ RunLoad
    \/ Validate
    \/ \E p \in Pages, sel \in {<<>>} \cup {<<x>> : x \in PatientIds} : Sidebar(p, sel)
    \/ PatientDashboard
    \/ NurseInputsPage
    \/ DetailsPid5Page
    \/ \E a \in DashCalls, e \in BOOLEAN, wr \in {"ok", "fail", "cut"} : Submit(a, e, wr)
    \/ EndRun
    \/ \E f \in Replacements : ExternalChange(f)
    \/ Restart

SpecDash == DashInit /\ [][DashNext]_vars

\* The score aggregators over every schema: script runs of a process whose
\* file stays as it is
ScoreInit ==
    /\ file \in ScoreFiles
    /\ pc = [s \in Sessions |-> "idle"]
    /\ call = [s \in Sessions |-> NoCall]
    /\ nurse_data = [s \in Sessions |-> EmptyDF]
    /\ msg = [s \in Sessions |-> "none"]
    /\ notes = [s \in Sessions |-> EmptyNotes]
    /\ missed = [s \in Sessions |-> {}]
    /\ clean = [s \in Sessions |-> FALSE]
    /\ before = [s \in Sessions |-> Unreadable]
    /\ ncalls = 0
    /\ DashIdle
    /\ FunIdle

ScoreNext ==
    \/ RunLoad
    \/ Validate
    \/ \E p \in Pages, sel \in {<<x>> : x \in PatientIds} : Sidebar(p, sel)
    \/ PatientDashboard
    \/ NurseInputsPage
    \/ DetailsPid5Page
    \/ EndRun

SpecScore == ScoreInit /\ [][ScoreNext]_vars

----------------------------------------------------------------------------
(* The sort of the patient list over identifiers spelled out.  An          *)
(* identifier is the sequence of its characters; the ID column is read as   *)
(* str (dtype={'ID': str}), so "01" stays "01", and an empty field is a     *)
(* null the checks of lines 88-90 stop on, so no identifier is empty.       *)

MaxIdLen == 3
MaxIds == 2

\* The characters of the identifiers: a letter and two digits
Chars == {"P", "0", "1"}

IsDigit(c) == c \in {"0", "1", "2", "3", "4", "5", "6", "7", "8", "9"}

DigitValue(c) ==
    CASE c = "0" -> 0 [] c = "1" -> 1 [] c = "2" -> 2 [] c = "3" -> 3
      [] c = "4" -> 4 [] c = "5" -> 5 [] c = "6" -> 6 [] c = "7" -> 7
      [] c = "8" -> 8 [] c = "9" -> 9

\* Where re.search starts to match \d+: the leftmost digit at or after i,
\* 0 when there is none
RECURSIVE MatchStart(_, _)
MatchStart(s, i) ==
    IF i > Len(s) THEN 0
    ELSE IF IsDigit(s[i]) THEN i
    ELSE MatchStart(s, i + 1)

\* + is greedy: the match runs on while digits follow
RECURSIVE MatchEnd(_, _)
MatchEnd(s, j) ==
    IF j < Len(s) /\ IsDigit(s[j + 1]) THEN MatchEnd(s, j + 1) ELSE j

\* re.search taking the digit run that ends the string's last one
re_search_last(id_str) ==
    LET ends == {j \in DOMAIN id_str : IsDigit(id_str[j])}
    IN IF ends = {} THEN <<>>
       ELSE LET j == CHOOSE x \in ends : \A y \in ends : y <= x
                i == CHOOSE x \in 1..j :
                        /\ \A k \in x..j : IsDigit(id_str[k])
                        /\ (x = 1 \/ ~IsDigit(id_str[x - 1]))
            IN SubSeq(id_str, i, j)

\* re.search(r'\d+', id_str): match.group(), or <<>> for None
re_search(id_str) ==
    LET i == MatchStart(id_str, 1)
    IN IF i = 0 THEN <<>> ELSE SubSeq(id_str, i, MatchEnd(id_str, i))

\* int(text) of a run of digits
RECURSIVE ParseInt(_)
ParseInt(ds) ==
    IF ds = <<>> THEN 0
    ELSE 10 * ParseInt(SubSeq(ds, 1, Len(ds) - 1)) + DigitValue(ds[Len(ds)])

\* Lines 124-126 on a spelled-out identifier
extract_number_str(id_str) ==
    LET match == re_search(id_str)
    IN IF match # <<>> THEN [inf |-> FALSE, n |-> ParseInt(match)]
       ELSE [inf |-> TRUE, n |-> 0]

\* sorted() is stable: x goes after the elements whose key is not greater
InsertStr(sorted, x) ==
    LET n == Cardinality({i \in DOMAIN sorted :
                 ~KeyLess(extract_number_str(x), extract_number_str(sorted[i]))})
    IN SubSeq(sorted, 1, n) \o <<x>> \o SubSeq(sorted, n + 1, Len(sorted))

\* sorted(ids, key=extract_number)
RECURSIVE SortedStr(_)
SortedStr(ids) ==
    IF ids = <<>> THEN <<>>
    ELSE InsertStr(SortedStr(SubSeq(ids, 1, Len(ids) - 1)), ids[Len(ids)])

\* Line 137 on the ID column of a dataset that passed the checks
patient_ids_str(column) ==
    IF column = <<>> THEN <<>> ELSE SortedStr(Unique(column))

\* The identifiers of up to n characters
RECURSIVE Texts(_)
Texts(n) ==
    IF n = 0 THEN {}
    ELSE {<<c>> : c \in Chars}
            \cup {Append(t, c) : t \in Texts(n - 1), c \in Chars}

\* The ID columns sorted: one identifier of any spelling, or up to MaxIds
\* shorter ones
IdColumns ==
    {<<t>> : t \in Texts(MaxIdLen)}
        \cup UNION {[1..n -> Texts(MaxIdLen - 1)] : n \in 0..MaxIds}

SortInit ==
    /\ file = Unreadable
    /\ pc = [s \in Sessions |-> "idle"]
    /\ call = [s \in Sessions |-> NoCall]
    /\ nurse_data = [s \in Sessions |-> EmptyDF]
    /\ msg = [s \in Sessions |-> "none"]
    /\ notes = [s \in Sessions |-> EmptyNotes]
    /\ missed = [s \in Sessions |-> {}]
    /\ clean = [s \in Sessions |-> FALSE]
    /\ before = [s \in Sessions |-> Unreadable]
    /\ ncalls = 0
    /\ DashIdle
    /\ arg \in IdColumns
    /\ ret = <<>>
    /\ fpc = "idle"

\* Line 137 is run
SortIds ==
    /\ fpc = "idle"
    /\ ret' = patient_ids_str(arg)
    /\ fpc' = "sorted"
    /\ UNCHANGED <<file, sessVars, dashVars, arg>>

SpecSort == SortInit /\ [][SortIds]_vars

----------------------------------------------------------------------------
(* The MADRS item section of patient_dashboard, lines 296-324.  A column    *)
(* name is kept in its parts: the text before the first separator, the     *)
(* separator, the item's number, the second separator and the phase.       *)

MaxItemCols == 2

MadrsName(s1, n, s2, p) == [f |-> "madrs", s1 |-> s1, a |-> n, s2 |-> s2, p |-> p]

\* madrs_score_bl, the total's column: no number between the separators
MadrsScoreBl == [f |-> "madrs_score", s1 |-> "_", a |-> 0, s2 |-> "", p |-> "bl"]

Separators == {"_", "."}

Phases == {"bl", "fu"}

\* Lines 97-108
madrs_items_mapping ==
    [n \in 1..10 |->
        CASE n = 1 -> "Tristesse Apparente"
          [] n = 2 -> "Tristesse Signalee"
          [] n = 3 -> "Tension Interieure"
          [] n = 4 -> "Sommeil Reduit"
          [] n = 5 -> "Appetit Reduit"
          [] n = 6 -> "Difficultes de Concentration"
          [] n = 7 -> "Lassitude"
          [] n = 8 -> "Incapacite a Ressentir"
          [] n = 9 -> "Pensees Pessimistes"
          [] n = 10 -> "Pensees Suicidaires"]

\* Line 297: ^madrs[_.]\d+[_.](bl|fu)$
FilterMatches(c) ==
    c.f = "madrs" /\ c.s1 \in Separators /\ c.s2 \in Separators /\ c.p \in Phases

\* Line 303: str.extract("_(bl|fu)$") gives the phase after an underscore,
\* NaN otherwise
ExtractTemps(c) == IF c.s2 = "_" /\ c.p \in Phases THEN c.p ELSE "NaN"

\* Line 304: .map({"bl": "Baseline", "fu": "Jour 30"})
MapTemps(t) ==
    CASE t = "bl" -> "Baseline" [] t = "fu" -> "Jour 30" [] OTHER -> "NaN"

\* Line 305: str.extract(r"madrs[_.](\d+)_") gives the number when an
\* underscore follows it, NaN otherwise
ExtractItem(c) ==
    IF c.f = "madrs" /\ c.s1 \in Separators /\ c.s2 = "_"
    THEN [nan |-> FALSE, n |-> c.a]
    ELSE [nan |-> TRUE, n |-> 0]

NoChart == [state |-> "none", rows |-> <<>>]

\* Lines 297-324: what the section shows, or the exception it ends in.
\* The rows of madrs_long are kept by the column they came from.
MadrsItems(patient_data) ==
    LET madrs_items == {c \in DOMAIN patient_data : FilterMatches(c)}
        melted == {c \in madrs_items : patient_data[c] # NaN}
        mapped == {c \in melted : ExtractItem(c).n \in DOMAIN madrs_items_mapping}
    IN IF madrs_items = {} THEN Ok([state |-> "no items", rows |-> <<>>])
       ELSE IF \E c \in melted : ExtractItem(c).nan
           THEN Raise("ValueError", NoChart)
       ELSE IF mapped = {} THEN Ok([state |-> "all NaN", rows |-> <<>>])
       ELSE Ok([state |-> "chart",
                rows |-> [c \in mapped |->
                    [Item |-> madrs_items_mapping[ExtractItem(c).n],
                     Temps |-> MapTemps(ExtractTemps(c)),
                     Score |-> patient_data[c]]]])

\* The item numbers of the columns: the first and the last of the mapping,
\* and one beyond it
ItemNumbers == {1, 10, 11}

MadrsNames ==
    {MadrsName(s1, n, s2, p) :
        s1 \in Separators, n \in ItemNumbers, s2 \in Separators, p \in Phases}
        \cup {MadrsScoreBl}

\* The sets of up to n of the columns
RECURSIVE ColumnSets(_)
ColumnSets(n) ==
    IF n = 0 THEN {{}}
    ELSE ColumnSets(n - 1)
            \cup {cs \cup {c} : cs \in ColumnSets(n - 1), c \in MadrsNames}

\* The item cells of a patient's row: a score or an empty cell
MadrsRows == UNION {[cs -> {NaN, IntV(3)}] : cs \in ColumnSets(MaxItemCols)}

MadrsInit ==
    /\ file = Unreadable
    /\ pc = [s \in Sessions |-> "idle"]
    /\ call = [s \in Sessions |-> NoCall]
    /\ nurse_data = [s \in Sessions |-> EmptyDF]
    /\ msg = [s \in Sessions |-> "none"]
    /\ notes = [s \in Sessions |-> EmptyNotes]
    /\ missed = [s \in Sessions |-> {}]
    /\ clean = [s \in Sessions |-> FALSE]
    /\ before = [s \in Sessions |-> Unreadable]
    /\ ncalls = 0
    /\ DashIdle
    /\ arg \in MadrsRows
    /\ ret = <<>>
    /\ fpc = "idle"

\* The section is run on the patient's row
ShowMadrsItems ==
    /\ fpc = "idle"
    /\ ret' = MadrsItems(arg)
    /\ fpc' = "madrs"
    /\ UNCHANGED <<file, sessVars, dashVars, arg>>

SpecMadrs == MadrsInit /\ [][ShowMadrsItems]_vars

----------------------------------------------------------------------------
(* The backing file as its characters, for calls of save_nurse_inputs      *)
(* whose writes overlap.  to_csv (line 177) opens the file for writing,     *)
(* which empties it, and writes the text when the handle is flushed; each   *)
(* call writes through a handle of its own, from the file's start, and      *)
(* nothing orders the two calls' opens and writes.  A text written over a   *)
(* longer one leaves the longer one's end in place.                         *)

Comma == ","
Newline == "\n"

IDName == <<"I", "D">>
ObjectivesName == <<"o", "b", "j", "e", "c", "t", "i", "v", "e", "s">>
TasksName == <<"t", "a", "s", "k", "s">>
CommentsName == <<"c", "o", "m", "m", "e", "n", "t", "s">>
NoteNames == <<ObjectivesName, TasksName, CommentsName>>

\* A missing value of a frame read from text
NaNField == <<"NaN">>

\* The pieces of a text between the occurrences of a separator
Split(s, sep) ==
    LET seps == {i \in DOMAIN s : s[i] = sep}
        pos(k) == IF k = 0 THEN 0
                  ELSE IF k > Cardinality(seps) THEN Len(s) + 1
                  ELSE CHOOSE i \in seps : Cardinality({j \in seps : j < i}) = k - 1
    IN [k \in 1..(Cardinality(seps) + 1) |-> SubSeq(s, pos(k - 1) + 1, pos(k) - 1)]

RECURSIVE Join(_, _)
Join(pieces, sep) ==
    IF pieces = <<>> THEN <<>>
    ELSE IF Len(pieces) = 1 THEN pieces[1]
    ELSE pieces[1] \o <<sep>> \o Join(Tail(pieces), sep)

\* The lines of a text that are not blank (skip_blank_lines)
RECURSIVE NonBlank(_)
NonBlank(lines) ==
    IF lines = <<>> THEN <<>>
    ELSE IF Head(lines) = <<>> THEN NonBlank(Tail(lines))
    ELSE <<Head(lines)>> \o NonBlank(Tail(lines))

\* pd.read_csv(csv_file, dtype={'ID': str}) on the file's characters: the
\* first line names the columns, a line with fewer fields is filled with
\* NaN, an empty field is NaN, a line with more fields is a ParserError and
\* a file without a line an EmptyDataError
read_csv_text(text) ==
    LET lines == NonBlank(Split(text, Newline))
    IN IF lines = <<>> THEN Raise("EmptyDataError", EmptyDF)
       ELSE LET cols == Split(lines[1], Comma)
                cell(fs, k) == IF k > Len(fs) \/ fs[k] = <<>> THEN NaNField
                               ELSE fs[k]
                row(i) == LET fs == Split(lines[i + 1], Comma)
                          IN [k \in DOMAIN cols |-> cell(fs, k)]
            IN IF \E i \in 2..Len(lines) : Len(Split(lines[i], Comma)) > Len(cols)
               THEN Raise("ParserError", EmptyDF)
               ELSE Ok([cols |-> cols,
                        rows |-> [i \in 1..(Len(lines) - 1) |-> row(i)]])

\* nurse_data.to_csv(index=False): the header and one line per row, NaN as
\* the empty field
to_csv_text(df) ==
    LET line(r) == Join([k \in DOMAIN r |-> IF r[k] = NaNField THEN <<>> ELSE r[k]],
                        Comma) \o <<Newline>>
        RECURSIVE body(_)
        body(rows) == IF rows = <<>> THEN <<>>
                      ELSE line(Head(rows)) \o body(Tail(rows))
    IN Join(df.cols, Comma) \o <<Newline>> \o body(df.rows)

\* Where a column stands in a frame, 0 when it has no such column
ColIndex(df, name) ==
    IF \E k \in DOMAIN df.cols : df.cols[k] = name
    THEN CHOOSE k \in DOMAIN df.cols :
            df.cols[k] = name /\ \A j \in 1..(k - 1) : df.cols[j] # name
    ELSE 0

\* The value save_nurse_inputs was given for a column
TextArg(a, name) ==
    IF name = IDName THEN a.id
    ELSE IF name = ObjectivesName THEN a.o
    ELSE IF name = TasksName THEN a.t
    ELSE a.c

\* Lines 172-176 on a frame read from text.  The frames of these files
\* have the three note columns, so the assignment of line 173 finds them.
MutateText(df, a) ==
    LET id == ColIndex(df, IDName)
        isNote(k) == \E n \in DOMAIN NoteNames : NoteNames[n] = df.cols[k]
    IN IF id = 0 THEN Raise("KeyError", df)
       ELSE IF \E i \in DOMAIN df.rows : df.rows[i][id] = a.id
           THEN Ok([df EXCEPT !.rows =
                    [i \in DOMAIN df.rows |->
                        [k \in DOMAIN df.cols |->
                            IF df.rows[i][id] = a.id /\ isNote(k)
                            THEN TextArg(a, df.cols[k])
                            ELSE df.rows[i][k]]]])
       ELSE Ok([df EXCEPT !.rows =
                Append(df.rows,
                    [k \in DOMAIN df.cols |->
                        IF k = id \/ isNote(k) THEN TextArg(a, df.cols[k])
                        ELSE NaNField])])

\* A write from the file's start through a handle opened before the file
\* got its present length
WriteOver(old, text) == text \o SubSeq(old, Len(text) + 1, Len(old))

TextId(i) == <<"P", IF i = 1 THEN "1" ELSE IF i = 2 THEN "2" ELSE "3">>

LongNote == <<"a", "a", "a", "a", "a", "a">>

\* A file of two patients without notes
TextFile ==
    to_csv_text([cols |-> <<IDName>> \o NoteNames,
                 rows |-> [i \in 1..2 |-> <<TextId(i), NaNField, NaNField, NaNField>>]])

TextCalls == [id : {TextId(i) : i \in 1..3}, o : {<<>>, LongNote}, t : {<<>>}, c : {<<>>}]

TornInit ==
    /\ file = TextFile
    /\ pc = [s \in Sessions |-> "idle"]
    /\ call = [s \in Sessions |-> NoCall]
    /\ nurse_data = [s \in Sessions |-> EmptyDF]
    /\ msg = [s \in Sessions |-> "none"]
    /\ notes = [s \in Sessions |-> EmptyNotes]
    /\ missed = [s \in Sessions |-> {}]
    /\ clean = [s \in Sessions |-> FALSE]
    /\ before = [s \in Sessions |-> Unreadable]
    /\ ncalls = 0
    /\ DashIdle
    /\ FunIdle

\* Lines 163-176: the call reads the file and changes its frame; an
\* exception goes to the except clause of lines 180-182
TextRead(s, a) ==
    /\ pc[s] = "idle"
    /\ ncalls < MaxCalls
    /\ ncalls' = ncalls + 1
    /\ call' = [call EXCEPT ![s] = a]
    /\ LET r == read_csv_text(file)
           m == MutateText(r.val, a)
       IN IF r.exc = "none" /\ m.exc = "none"
          THEN /\ nurse_data' = [nurse_data EXCEPT ![s] = m.val]
               /\ pc' = [pc EXCEPT ![s] = "read"]
               /\ msg' = msg
          ELSE /\ nurse_data' = nurse_data
               /\ pc' = [pc EXCEPT ![s] = "failed_read"]
               /\ msg' = [msg EXCEPT ![s] = "error"]
    /\ UNCHANGED <<file, notes, missed, clean, before, dashVars, funVars>>

\* Line 177, first half: to_csv opens the file for writing
TextOpen(s) ==
    /\ pc[s] = "read"
    /\ file' = <<>>
    /\ pc' = [pc EXCEPT ![s] = "open"]
    /\ UNCHANGED <<call, nurse_data, msg, notes, missed, clean, before, ncalls,
                   dashVars, funVars>>

\* Lines 177-179, second half: the text is written and success reported
TextWrite(s) ==
    /\ pc[s] = "open"
    /\ file' = WriteOver(file, to_csv_text(nurse_data[s]))
    /\ pc' = [pc EXCEPT ![s] = "done"]
    /\ msg' = [msg EXCEPT ![s] = "success"]
    /\ UNCHANGED <<call, nurse_data, notes, missed, clean, before, ncalls,
                   dashVars, funVars>>

\* The call returns
TextReturn(s) ==
    /\ pc[s] \in {"done", "failed_read"}
    /\ pc' = [pc EXCEPT ![s] = "idle"]
    /\ call' = [call EXCEPT ![s] = NoCall]
    /\ nurse_data' = [nurse_data EXCEPT ![s] = EmptyDF]
    /\ msg' = [msg EXCEPT ![s] = "none"]
    /\ UNCHANGED <<file, notes, missed, clean, before, ncalls, dashVars, funVars>>

TornNext ==
    \/ \E s \in Sessions, a \in TextCalls : TextRead(s, a)
    \/ \E s \in Sessions : TextOpen(s)
    \/ \E s \in Sessions : TextWrite(s)
    \/ \E s \in Sessions : TextReturn(s)

SpecTorn == TornInit /\ [][TornNext]_vars

----------------------------------------------------------------------------
(* Properties of the note store *)

\* The note texts a file holds for an identifier, one triple per row
DiskNotes(f, id) ==
    IF f.st # "ok" \/ IDCol \notin f.cols THEN {}
    ELSE {[c \in NoteCols |-> IF c \in f.cols THEN f.rows[i][c] ELSE Empty]
            : i \in {j \in DOMAIN f.rows : f.rows[j][IDCol] = id}}

\* The same of a frame in memory, as to_csv would write it
FrameNotes(df, id) ==
    IF IDCol \notin df.cols THEN {}
    ELSE {[c \in NoteCols |-> IF c \in df.cols THEN FormatCell(df.rows[i][c])
                              ELSE Empty]
            : i \in Matching(df, id)}

CallNotes(a) == [c \in NoteCols |-> FormatCell(ArgOf(a, c))]

\* A call of session s that ended in success and whose write is the last
LastWriter(s) == pc[s] = "done" /\ msg[s] = "success" /\ clean[s]

\* C1: when a call read the file before another call, for a different
\* identifier, wrote it, and then wrote the file itself, the file holds for
\* the other identifier what the call had read, not what the other call
\* wrote: the other call's update is lost.
C1_LostUpdate ==
    \A s \in Sessions :
        LastWriter(s) =>
            \A a \in missed[s] :
                a.id # call[s].id =>
                    DiskNotes(file, a.id) = FrameNotes(nurse_data[s], a.id)

\* Two overlapping calls for different identifiers both reported success
\* and the file does not hold the update of the one that wrote first.
C1_Witness ==
    \E s \in Sessions :
        /\ LastWriter(s)
        /\ \E a \in missed[s] :
            /\ a.id # call[s].id
            /\ \E x \in Sessions : x # s /\ call[x] = a /\ msg[x] = "success"
            /\ DiskNotes(file, a.id) # {CallNotes(a)}

\* C2: a successful save followed by a load of the same identifier, with no
\* other write in between, returns the three texts that were saved.
C2_RoundTrip ==
    \A s \in Sessions :
        (pc[s] = "shown" /\ msg[s] = "success" /\ clean[s]) =>
            notes[s] = [c \in NoteCols |-> ArgOf(call[s], c)]

\* What C3 allows a save of call a to change between file f and file g
FrameOk(f, g, a) ==
    LET hit == {i \in DOMAIN f.rows : f.rows[i][IDCol] = a.id}
        n == Len(f.rows)
    IN IF hit # {}
       THEN /\ Len(g.rows) = n
            /\ \A i \in 1..n :
                 /\ \A c \in f.cols \ NoteCols : g.rows[i][c] = f.rows[i][c]
                 /\ i \notin hit =>
                      \A c \in f.cols \cap NoteCols : g.rows[i][c] = f.rows[i][c]
                 /\ i \in hit =>
                      \A c \in NoteCols : g.rows[i][c] = CallNotes(a)[c]
       ELSE /\ Len(g.rows) = n + 1
            /\ \A i \in 1..n : \A c \in f.cols : g.rows[i][c] = f.rows[i][c]
            /\ g.rows[n + 1][IDCol] = a.id
            /\ \A c \in NoteCols : g.rows[n + 1][c] = CallNotes(a)[c]

UniqueIds(f) ==
    \A i, j \in DOMAIN f.rows : f.rows[i][IDCol] = f.rows[j][IDCol] => i = j

\* C3: a successful save on a store with unique identifiers changes only
\* the addressed row: an absent identifier gets one new row and no existing
\* row is altered; a present one has its three note fields changed and
\* every other row and column is as it was.
C3_Frame ==
    \A s \in Sessions :
        (LastWriter(s) /\ UniqueIds(before[s])) =>
            FrameOk(before[s], file, call[s])

\* C6: a save that fails before the write (reading the file, locating or
\* changing the row) reports an error and no success, and leaves the file
\* as it was when the call began.
C6_FailedSaveKeepsFile ==
    \A s \in Sessions :
        pc[s] \in {"failed_read", "failed_mutate"} =>
            msg[s] = "error" /\ file = before[s]

\* A save failed after a good read, while locating or changing the row.
C6_Witness ==
    \E s \in Sessions :
        pc[s] = "failed_mutate" /\ before[s].st = "ok" /\ before[s].rows # <<>>

\* Whether file f has a row for an identifier
HasRow(f, id) ==
    /\ f.st = "ok"
    /\ IDCol \in f.cols
    /\ \E i \in DOMAIN f.rows : f.rows[i][IDCol] = id

\* The note field c of the first row of f for an identifier, as read_csv
\* gives it, a missing value or column as the empty string
NoteField(f, id, c) ==
    LET i == Min({j \in DOMAIN f.rows : f.rows[j][IDCol] = id})
        v == ParseTable(f.cols, f.rows).rows[i][c]
    IN IF v = NaN THEN EmptyStr ELSE v

\* C8: load_nurse_inputs never raises; with a row for the identifier it
\* returns the row's three note fields, missing values as the empty string;
\* with no such row, or a file that cannot be read or parsed, it returns
\* three empty strings.
C8_LoadNeverRaises ==
    \A s \in Sessions :
        /\ pc[s] # "crashed"
        /\ pc[s] = "shown" =>
            notes[s] = IF HasRow(before[s], call[s].id)
                          /\ NoteCols \subseteq before[s].cols
                       THEN [c \in NoteCols |-> NoteField(before[s], call[s].id, c)]
                       ELSE EmptyNotes

\* A load found the row and returned a text and an empty string for a
\* missing value; another load met a file it could not read.
C8_Witness ==
    \E s \in Sessions :
        /\ pc[s] = "shown"
        /\ HasRow(before[s], call[s].id)
        /\ notes[s][Col("objectives")] # EmptyStr
        /\ notes[s][Col("comments")] = EmptyStr
        /\ before[s].rows[Min({j \in DOMAIN before[s].rows :
                before[s].rows[j][IDCol] = call[s].id})][Col("comments")] = Empty

C8_WitnessUnreadable ==
    \E s \in Sessions : pc[s] = "shown" /\ before[s].st # "ok"

----------------------------------------------------------------------------
(* Properties of the loader and of the entry checks *)

\* The script run has made the checks of lines 84-94
Checked == dpc \notin {"idle", "loaded"}

\* The identifier column is absent, holds a null or holds a duplicate
BadIds(df) ==
    \/ IDCol \notin df.cols
    \/ \E i \in DOMAIN df.rows : df.rows[i][IDCol] = NaN
    \/ \E i, j \in DOMAIN df.rows : i # j /\ df.rows[i][IDCol] = df.rows[j][IDCol]

\* C4: the dashboard rejects the loaded dataset, with an error shown and
\* the script stopped before the selector and the pages, exactly when the
\* identifier column is absent, holds a null or holds a duplicate.
C4_RejectIff ==
    Checked =>
        /\ (dpc = "stopped") <=> BadIds(final_data)
        /\ dpc = "stopped" =>
            /\ \E e \in ui : e[1] = "error"
            /\ selected = <<>> /\ page = "none"
            /\ pid5 = NoPid5 /\ phq9 = NoPhq9 /\ shown = EmptyNotes

\* A dataset with an identifier column without nulls was rejected for a
\* duplicate.
C4_Witness ==
    /\ dpc = "stopped"
    /\ IDCol \in final_data.cols
    /\ ~IsNullAny(final_data)
    /\ <<"error", "duplicate">> \in ui

\* C5: when load_data fails (the file cannot be read or parsed, under
\* utf-8 or under both encodings) the dashboard is not halted.
C5_LoadFailureDegrades == (Checked /\ loadFailed) => dpc # "stopped"

\* C7: within a process, every script run works on the dataset the first
\* load_data call produced, whatever has happened to the file since.
C7_CachedDataset == dpc # "idle" => (first.has /\ final_data = first.df)

\* A script run loaded its dataset when the file would have given another.
C7_Witness ==
    /\ dpc = "loaded"
    /\ first.has
    /\ LoadDataBody(seenFile).df # final_data
    /\ ~LoadDataBody(seenFile).failed

----------------------------------------------------------------------------
(* Properties of the score aggregators *)

\* The item numbers of a dimension, as section 4.2 of the specification
\* lists them
ItemsOf(dim) ==
    CASE dim = "Affect Negatif" -> {8, 9, 10, 11, 15}
      [] dim = "Detachement" -> {4, 13, 14, 16, 18}
      [] dim = "Antagonisme" -> {17, 19, 20, 22, 25}
      [] dim = "Desinhibition" -> {1, 2, 3, 5, 6}
      [] dim = "Psychoticisme" -> {7, 12, 21, 23, 24}

\* The 50 required columns: 25 items in two phases
RequiredPid5 == {PID5Col(i, ph) : i \in 1..25, ph \in {"bl", "fu"}}

\* A patient's value in a column; an empty cell has none
ValueOf(row, c) == IF row[c].t = "nan" THEN 0 ELSE row[c].n

RECURSIVE SumOver(_, _)
SumOver(row, cs) ==
    IF cs = {} THEN 0
    ELSE LET c == CHOOSE x \in cs : TRUE
         IN ValueOf(row, c) + SumOver(row, cs \ {c})

SelectedRow == patient_row(final_data, selected[1])

DimSum(d, ph) ==
    SumOver(SelectedRow, {PID5Col(i, ph) : i \in ItemsOf(pid5_dimensions_mapping[d].dim)})

Pid5Complete ==
    /\ pid5.status = "scores"
    /\ DOMAIN pid5.bl = 1..5 /\ DOMAIN pid5.fu = 1..5
    /\ \A d \in 1..5 : pid5.bl[d] = DimSum(d, "bl") /\ pid5.fu[d] = DimSum(d, "fu")

\* C9 as stated: with a required column missing the aggregator reports
\* "incomplete" and computes no score; with all fifty present each
\* dimension's score is the sum of its five items, in both phases.
C9_MissingIsIncomplete ==
    pid5.status # "none" =>
        IF RequiredPid5 \subseteq final_data.cols THEN Pid5Complete
        ELSE pid5 = [NoPid5 EXCEPT !.status = "incomplete"]

\* C9 as amended: with a required column missing no score is computed, and
\* the aggregator reports "incomplete" when the schema has a column named
\* pid5_..., "not available" when it has none.
C9_AllOrNothing ==
    pid5.status # "none" =>
        IF RequiredPid5 \subseteq final_data.cols THEN Pid5Complete
        ELSE IF \E c \in final_data.cols : c.f = "pid5"
            THEN pid5 = [NoPid5 EXCEPT !.status = "incomplete"]
        ELSE pid5 = [NoPid5 EXCEPT !.status = "unavailable"]

\* One required column is missing and the aggregator reported "incomplete".
C9_Witness ==
    /\ pid5.status = "incomplete"
    /\ Cardinality(RequiredPid5 \ final_data.cols) = 1

\* All fifty columns are there and the scores differ between the phases.
C9_WitnessScores ==
    /\ pid5.status = "scores"
    /\ pid5.bl # pid5.fu
    /\ \E d \in 1..5 : pid5.bl[d] > 0

Days == {5, 10, 15, 20, 25, 30}

DayCols(d) == {PHQ9Col(d, i) : i \in 1..9}

\* C10: with any item column of any day missing the PHQ-9 series is
\* reported as not available and no day's score is drawn, the days already
\* summed included; with all of them present each day's score is the sum of
\* the day's nine items.
C10_Phq9AllOrNothing ==
    phq9.status # "none" =>
        IF \A d \in Days : DayCols(d) \subseteq final_data.cols
        THEN /\ phq9.status = "scores"
             /\ DOMAIN phq9.chart = Days
             /\ \A d \in Days : phq9.chart[d] = SumOver(SelectedRow, DayCols(d))
        ELSE /\ phq9.status \in {"incomplete", "unavailable"}
             /\ phq9.chart = NoScores

\* A later day's column is missing: earlier days were summed, none is drawn.
C10_Witness ==
    /\ phq9.status = "incomplete"
    /\ DOMAIN phq9.summed # {}
    /\ phq9.chart = NoScores

----------------------------------------------------------------------------
(* Properties of the patient list's order *)

\* i..j is the first maximal run of digits of s
IsFirstRun(s, i, j) ==
    /\ i <= j
    /\ \A k \in i..j : IsDigit(s[k])
    /\ \A k \in 1..(i - 1) : ~IsDigit(s[k])
    /\ (j = Len(s) \/ ~IsDigit(s[j + 1]))

RECURSIVE Pow10(_)
Pow10(n) == IF n = 0 THEN 1 ELSE 10 * Pow10(n - 1)

\* The number the digits s[i..j] write in base ten
RECURSIVE Decimal(_, _, _)
Decimal(s, i, j) ==
    IF i > j THEN 0
    ELSE DigitValue(s[i]) * Pow10(j - i) + Decimal(s, i + 1, j)

\* The sort key the specification gives an identifier
NumberIn(s) ==
    IF \A k \in DOMAIN s : ~IsDigit(s[k]) THEN [inf |-> TRUE, n |-> 0]
    ELSE LET run == CHOOSE r \in (DOMAIN s) \X (DOMAIN s) : IsFirstRun(s, r[1], r[2])
         IN [inf |-> FALSE, n |-> Decimal(s, run[1], run[2])]

\* Where an identifier first stands in a column
FirstIndex(column, x) ==
    CHOOSE i \in DOMAIN column :
        column[i] = x /\ \A j \in 1..(i - 1) : column[j] # x

\* C11: extract_number gives the first maximal run of digits as an integer,
\* or infinity without a digit; the sorted list holds each identifier of the
\* column once, in the order of the keys, identifiers without digits after
\* all those with digits, and identifiers of equal keys in the order the
\* column had them.
C11_SortByNumber ==
    fpc = "sorted" =>
        /\ \A i \in DOMAIN arg : extract_number_str(arg[i]) = NumberIn(arg[i])
        /\ {ret[i] : i \in DOMAIN ret} = {arg[i] : i \in DOMAIN arg}
        /\ \A i, j \in DOMAIN ret : i < j =>
            LET a == NumberIn(ret[i])
                b == NumberIn(ret[j])
            IN /\ ret[i] # ret[j]
               /\ a.inf => b.inf
               /\ (~a.inf /\ ~b.inf) => a.n <= b.n
               /\ a = b => FirstIndex(arg, ret[i]) < FirstIndex(arg, ret[j])

\* Two identifiers of equal number kept the column's order, the first of
\* them spelled with a letter after its first run of digits.
C11_Witness ==
    /\ fpc = "sorted"
    /\ Len(ret) = 2
    /\ ret = arg
    /\ ~NumberIn(ret[1]).inf
    /\ NumberIn(ret[1]) = NumberIn(ret[2])
    /\ extract_number_str(ret[1]).n > 0
    /\ ~IsDigit(ret[1][Len(ret[1])])

\* An identifier without digits was moved behind one with digits.
C11_WitnessInf ==
    /\ fpc = "sorted"
    /\ Len(ret) = 2
    /\ ret # arg
    /\ NumberIn(ret[2]).inf
    /\ ~NumberIn(ret[1]).inf

\* One identifier with two runs of digits got the number of the first.
C11_WitnessRuns ==
    /\ fpc = "sorted"
    /\ \E i \in DOMAIN ret :
        /\ Len(ret[i]) = 3
        /\ IsDigit(ret[i][1]) /\ ~IsDigit(ret[i][2]) /\ IsDigit(ret[i][3])
        /\ ret[i][1] # ret[i][3]
        /\ extract_number_str(ret[i]).n = DigitValue(ret[i][1])

----------------------------------------------------------------------------
(* Properties of the MADRS item section *)

\* A column of either grammar, madrs_{n}_{bl|fu} or madrs.{n}.{bl|fu}
InGrammar(c) ==
    /\ c.f = "madrs"
    /\ c.p \in {"bl", "fu"}
    /\ \/ (c.s1 = "_" /\ c.s2 = "_")
       \/ (c.s1 = "." /\ c.s2 = ".")

\* The columns of the row that give a triple
Charted(row) ==
    {c \in DOMAIN row : InGrammar(c) /\ c.a \in 1..10 /\ row[c] # NaN}

\* C12: every column of either grammar with an item number of 1..10 and a
\* score gives exactly one triple of the item's label, the phase and the
\* score; columns with an empty score or another item number give none;
\* with no triple left the section shows a "no data" state; it never
\* raises.
C12_MadrsItems ==
    fpc = "madrs" =>
        /\ ret.exc = "none"
        /\ \A c \in Charted(arg) :
            /\ c \in DOMAIN ret.val.rows
            /\ ret.val.rows[c] =
                [Item |-> madrs_items_mapping[c.a],
                 Temps |-> IF c.p = "bl" THEN "Baseline" ELSE "Jour 30",
                 Score |-> arg[c]]
        /\ \A c \in DOMAIN ret.val.rows :
            InGrammar(c) => c \in Charted(arg)
        /\ Charted(arg) = {} => ret.val.state \in {"no items", "all NaN"}

----------------------------------------------------------------------------
(* Properties of the identifiers under saves *)

\* C13: from a backing file of unique identifiers, after any sequence and
\* any interleaving of save_nurse_inputs calls, every state of the file has
\* unique identifiers: whenever the file can be read, the duplicate check
\* of lines 92-94 passes.
C13_SavesKeepIdsUnique ==
    LET r == read_csv_text(file)
    IN r.exc = "none" =>
        \A i, j \in DOMAIN r.val.rows :
            r.val.rows[i][1] = r.val.rows[j][1] => i = j

====
